---- MODULE Spec2Model ----
(***************************************************************************)
(* A model of bigdecimalmath (src/src/lib.rs): the n-th root solver and    *)
(* its decimal helpers, the exact integer power, the shared power-of-ten   *)
(* cache, the divisor selection of divide_and_round_by_ten_pow and the     *)
(* compare_half helper.                                                    *)
(*                                                                         *)
(* A BigInt is a record [neg, mag]: mag is its magnitude as a sequence of   *)
(* limbs of four decimal digits, least significant first, empty for zero.  *)
(* A BigDecimal is a record [int, scale] standing for int * 10^(-scale).   *)
(* f64 values are kept as exact ratios of big integers, except the seed    *)
(* f64::powf produces, which is the true root cut to SeedDigits digits or  *)
(* the next decimal above it (the rounding direction is not fixed).        *)
(***************************************************************************)
EXTENDS Integers, Sequences, FiniteSets, TLC

VARIABLES
    n, x, pc, s, c, diff, mc_precision_only, locmc, eps, outcome, reached,   \* root
    px, pn, pres,                                              \* pow
    pows, holder, tpc, tn, current_len, new_len, ti, tret,               \* big_ten_to_the
    ten_pow, ddiv, dpc,                                           \* divide_and_round_by_ten_pow
    ha, hb, hres                                               \* compare_half

rootVars == <<n, x, pc, s, c, diff, mc_precision_only, locmc, eps, outcome, reached>>
powVars == <<px, pn, pres>>
cacheVars == <<pows, holder, tpc, tn, current_len, new_len, ti, tret>>
divVars == <<ten_pow, ddiv, dpc>>
halfVars == <<ha, hb, hres>>
vars == <<rootVars, powVars, cacheVars, divVars, halfVars>>

(***************************************************************************)
(* Bounds of the model.                                                    *)
(***************************************************************************)
MaxUnscaled == 12     \* root: small inputs have unscaled integers -2..MaxUnscaled
MaxScale == 1         \* root: and scales 0..MaxScale
MaxN == 3             \* root: with indices -1..MaxN
SeedDigits == 16      \* root: significant digits of the floating-point seed
MaxPowBase == 3       \* pow: unscaled integers -MaxPowBase..MaxPowBase
MaxPowScale == 2      \* pow: small scales -MaxPowScale..MaxPowScale
MaxPowExp == 4        \* pow: small exponents -1..MaxPowExp
MaxThreads == 2       \* big_ten_to_the: concurrent callers
MaxTenPow == 40       \* divide_and_round_by_ten_pow: ten_pow in -2..MaxTenPow
MaxWords == 2         \* compare_half: 32-bit words of a and of b

(***************************************************************************)
(* Natural numbers of any size: limbs of four decimal digits (0..9999),    *)
(* least significant limb first, no zero limb at the most significant end. *)
(***************************************************************************)
Max(a, b) == IF a >= b THEN a ELSE b

Min(a, b) == IF a <= b THEN a ELSE b

RECURSIVE Pow10(_)
Pow10(k) == IF k <= 0 THEN 1 ELSE 10 * Pow10(k - 1)

\* Without the zero limbs at the most significant end.
Trim(a) ==
    LET used == {i \in 1..Len(a) : a[i] # 0}
    IN IF used = {} THEN <<>>
       ELSE SubSeq(a, 1, CHOOSE i \in used : \A j \in used : j <= i)

RECURSIVE NatOf(_)
NatOf(i) == IF i = 0 THEN <<>> ELSE <<i % 10000>> \o NatOf(i \div 10000)

RECURSIVE IntOf(_)
IntOf(a) == IF a = <<>> THEN 0 ELSE Head(a) + 10000 * IntOf(Tail(a))

LimbAt(a, i) == IF i >= 1 /\ i <= Len(a) THEN a[i] ELSE 0

\* The carry into limb i of a + b: some limb below overflows and every limb
\* between passes the carry on.
CarryInto(a, b, i) ==
    \E j \in 1..(i - 1) :
        /\ LimbAt(a, j) + LimbAt(b, j) >= 10000
        /\ \A m \in (j + 1)..(i - 1) : LimbAt(a, m) + LimbAt(b, m) = 9999

AddN(a, b) ==
    Trim([i \in 1..(Max(Len(a), Len(b)) + 1) |->
             (LimbAt(a, i) + LimbAt(b, i) + (IF CarryInto(a, b, i) THEN 1 ELSE 0)) % 10000])

\* The borrow from limb i of a - b.
BorrowFrom(a, b, i) ==
    \E j \in 1..(i - 1) :
        /\ LimbAt(a, j) < LimbAt(b, j)
        /\ \A m \in (j + 1)..(i - 1) : LimbAt(a, m) = LimbAt(b, m)

\* a - b for a >= b.
SubN(a, b) ==
    Trim([i \in 1..Len(a) |->
             (a[i] - LimbAt(b, i) - (IF BorrowFrom(a, b, i) THEN 1 ELSE 0)) % 10000])

\* -1, 0 or 1 as a < b, a = b or a > b: the most significant limb that
\* differs decides.
CmpN(a, b) ==
    IF Len(a) < Len(b) THEN -1
    ELSE IF Len(a) > Len(b) THEN 1
    ELSE LET differ == {i \in 1..Len(a) : a[i] # b[i]}
         IN IF differ = {} THEN 0
            ELSE LET top == CHOOSE i \in differ : \A j \in differ : j <= i
                 IN IF a[top] < b[top] THEN -1 ELSE 1

\* Limbs that exceed 9999 brought back into range, the excess carried up.
RECURSIVE Carry(_, _, _)
Carry(a, i, carry) ==
    IF i > Len(a) THEN NatOf(carry)
    ELSE <<(a[i] + carry) % 10000>> \o Carry(a, i + 1, (a[i] + carry) \div 10000)

\* a * d for a small d (at most one limb).
MulSmall(a, d) == Trim(Carry([i \in 1..Len(a) |-> a[i] * d], 1, 0))

\* a with k zero limbs below it.
ShiftLimbs(a, k) == IF a = <<>> THEN a ELSE [i \in 1..k |-> 0] \o a

\* The sum of the products a[i] * b[k + 1 - i], from i up.
RECURSIVE ColumnSum(_, _, _, _)
ColumnSum(a, b, k, i) ==
    IF i > Len(a) \/ i > k THEN 0
    ELSE a[i] * b[k + 1 - i] + ColumnSum(a, b, k, i + 1)

\* a * b, with a the shorter of the two: column by column, then the carries.
MulShort(a, b) ==
    Trim(Carry([k \in 1..(Len(a) + Len(b) - 1) |-> ColumnSum(a, b, k, Max(1, k + 1 - Len(b)))],
               1, 0))

MulN(a, b) ==
    IF a = <<>> \/ b = <<>> THEN <<>>
    ELSE IF Len(a) <= Len(b) THEN MulShort(a, b)
    ELSE MulShort(b, a)

\* a * 10^k.
ShiftN(a, k) ==
    IF k <= 0 THEN a ELSE ShiftLimbs(MulSmall(a, Pow10(k % 4)), k \div 4)

\* floor(a / 10^k): the magnitude without its k least significant digits.
DropN(a, k) ==
    IF k <= 0 THEN a
    ELSE LET q == k \div 4
             lo == Pow10(k % 4)
             hi == Pow10(4 - (k % 4))
         IN Trim([i \in 1..Max(0, Len(a) - q) |->
                     (a[i + q] \div lo) + (LimbAt(a, i + q + 1) % lo) * hi])

\* The number of decimal digits of a, 0 for zero.
DigitsN(a) ==
    IF a = <<>> THEN 0
    ELSE LET top == a[Len(a)]
         IN 4 * (Len(a) - 1)
            + (IF top >= 1000 THEN 4 ELSE IF top >= 100 THEN 3 ELSE IF top >= 10 THEN 2 ELSE 1)

\* The decimal digit of weight 10^(k-1), zero past the most significant one.
DigitAt(a, k) ==
    IF k < 1 THEN 0 ELSE (LimbAt(a, ((k - 1) \div 4) + 1) \div Pow10((k - 1) % 4)) % 10

\* The largest q in lo..hi with b * q <= r, by bisection (b * lo <= r).
RECURSIVE QuotSearch(_, _, _, _)
QuotSearch(r, b, lo, hi) ==
    IF lo = hi THEN lo
    ELSE LET mid == (lo + hi + 1) \div 2
         IN IF CmpN(MulSmall(b, mid), r) <= 0 THEN QuotSearch(r, b, mid, hi)
            ELSE QuotSearch(r, b, lo, mid - 1)

\* Quotient and remainder of r by b, for r < 10000 * b.  The leading digits
\* of r and of b bound the quotient: with b cut to its first five digits bt
\* and r cut at the same place to rt, rt / (bt + 1) <= r / b < (rt + 1) / bt.
QuotRem(r, b) ==
    LET cut == Max(0, DigitsN(b) - 5)
        bt == IntOf(DropN(b, cut))
        rt == IntOf(DropN(r, cut))
        q == QuotSearch(r, b, rt \div (bt + 1), Min(9999, (rt + 1) \div bt))
    IN [q |-> q, r |-> SubN(r, MulSmall(b, q))]

\* Long division of the limbs a[1..i] by b, the most significant first.
RECURSIVE DivModFrom(_, _, _, _, _)
DivModFrom(a, b, i, q, r) ==
    IF i = 0 THEN [q |-> Trim(q), r |-> r]
    ELSE LET step == QuotRem(Trim(<<a[i]>> \o r), b)
             rest == step.r
         IN IF Len(rest) >= 0 THEN DivModFrom(a, b, i - 1, <<step.q>> \o q, rest)
            ELSE [q |-> q, r |-> rest]

\* Quotient and remainder of a by b, for b # 0.
DivModN(a, b) == DivModFrom(a, b, Len(a), <<>>, <<>>)

\* a^e by squaring.
RECURSIVE PowN(_, _)
PowN(a, e) ==
    IF e = 0 THEN <<1>>
    ELSE IF e = 1 THEN a
    ELSE IF e % 2 = 0 THEN PowN(MulN(a, a), e \div 2)
    ELSE MulN(a, PowN(MulN(a, a), e \div 2))

\* 10^k.
TenTo(k) == ShiftN(<<1>>, k)

\* The number written with the decimal digits ds, most significant first.
Lit(ds) ==
    LET len == Len(ds)
        digit(k) == IF k >= 1 /\ k <= len THEN ds[len + 1 - k] ELSE 0
    IN Trim([i \in 1..((len + 3) \div 4) |->
                digit(4 * i - 3) + 10 * digit(4 * i - 2)
                + 100 * digit(4 * i - 1) + 1000 * digit(4 * i)])

\* The decimal digits of a, most significant first (none for zero).
DigitsOf(a) == [i \in 1..DigitsN(a) |-> DigitAt(a, DigitsN(a) + 1 - i)]

(***************************************************************************)
(* BigInt and BigDecimal.                                                  *)
(***************************************************************************)
Big(neg, mag) == [neg |-> neg /\ mag # <<>>, mag |-> mag]

BigOf(i) == IF i < 0 THEN Big(TRUE, NatOf(-i)) ELSE Big(FALSE, NatOf(i))

Zero == Big(FALSE, <<>>)

One == Big(FALSE, <<1>>)

IsZero(b) == b.mag = <<>>

Neg(b) == Big(~b.neg, b.mag)

AddB(a, b) ==
    IF a.neg = b.neg THEN Big(a.neg, AddN(a.mag, b.mag))
    ELSE IF CmpN(a.mag, b.mag) >= 0 THEN Big(a.neg, SubN(a.mag, b.mag))
    ELSE Big(b.neg, SubN(b.mag, a.mag))

SubB(a, b) == AddB(a, Neg(b))

MulB(a, b) == Big(a.neg # b.neg, MulN(a.mag, b.mag))

\* -1, 0, 1 as a < b, a = b, a > b.
CmpB(a, b) ==
    IF a.neg /\ ~b.neg THEN -1
    ELSE IF ~a.neg /\ b.neg THEN 1
    ELSE IF a.neg THEN CmpN(b.mag, a.mag)
    ELSE CmpN(a.mag, b.mag)

\* bigint.pow(e).
PowB(b, e) == Big(b.neg /\ e % 2 = 1, PowN(b.mag, e))

DigitChars == <<"0", "1", "2", "3", "4", "5", "6", "7", "8", "9">>

\* BigInt::to_string: the decimal digits, most significant first, after a
\* minus sign for a negative integer.
to_string(b) ==
    LET ds == DigitsOf(b.mag)
        digits == IF ds = <<>> THEN <<"0">> ELSE [i \in 1..Len(ds) |-> DigitChars[ds[i] + 1]]
    IN IF b.neg THEN <<"-">> \o digits ELSE digits

\* BigDecimal::digits: the number of decimal digits of the magnitude, 1 for
\* zero.
CountDigits(b) == Max(1, DigitsN(b.mag))

Dec(i, sc) == [int |-> i, scale |-> sc]

NoDec == Dec(Zero, 0)

(***************************************************************************)
(* The helpers of lib.rs.                                                  *)
(***************************************************************************)
get_prec(d) == Len(to_string(d.int))

\* BigDecimal::with_scale: pads with zeros or cuts digits off toward zero.
with_scale(d, sc) ==
    IF sc >= d.scale THEN Dec(Big(d.int.neg, ShiftN(d.int.mag, sc - d.scale)), sc)
    ELSE Dec(Big(d.int.neg, DropN(d.int.mag, d.scale - sc)), sc)

scale_prec(d, k) == with_scale(d, k + d.scale)

ulp(d) == Dec(One, d.scale)

PowLimit == 999999999

InPowRange(e) == 0 <= e /\ e <= PowLimit

pow(d, e) ==
    IF ~InPowRange(e) THEN [ok |-> FALSE, val |-> NoDec]
    ELSE [ok |-> TRUE, val |-> Dec(PowB(d.int, e), d.scale * e)]

(***************************************************************************)
(* The BigDecimal operations root calls.                                   *)
(***************************************************************************)
\* a - b, at the larger of the two scales.
Sub(a, b) ==
    LET sc == Max(a.scale, b.scale)
    IN Dec(SubB(with_scale(a, sc).int, with_scale(b, sc).int), sc)

\* BigDecimal::with_prec: a value of more than prec digits is cut to prec
\* digits and, when it is positive, rounded half up (the remainder of a
\* negative value never passes the rounding test); a value of fewer digits
\* is padded with zeros.
with_prec(d, prec) ==
    LET digits == CountDigits(d.int)
        k == digits - prec
        q == DropN(d.int.mag, k)
        up == ~d.int.neg /\ DigitAt(d.int.mag, k) >= 5
    IN IF digits > prec
       THEN Dec(Big(d.int.neg, IF up THEN AddN(q, <<1>>) ELSE q), d.scale - k)
       ELSE IF digits < prec
       THEN Dec(Big(d.int.neg, ShiftN(d.int.mag, prec - digits)), d.scale + (prec - digits))
       ELSE d

\* (a / b).with_prec(prec) for b # 0.  BigDecimal's division returns a as it
\* is when a is zero; otherwise it makes quotient digits until the remainder
\* is zero or there are 100 of them, and with_prec reads no digit past the
\* first prec + 1: the quotient is taken that far.
DivWithPrec(a, b, prec) ==
    IF IsZero(a.int) THEN with_prec(a, prec)
    ELSE LET num == a.int.mag
             den == b.int.mag
             j == Max(0, Min(prec + 1, 100) - (DigitsN(num) - DigitsN(den)))
             q == DivModN(ShiftN(num, j), den).q
         IN with_prec(Dec(Big(a.int.neg # b.int.neg, q), a.scale - b.scale + j), prec)

\* BigDecimal::round: to k digits after the decimal point, half away from
\* zero; a value with no more than k such digits is returned as it is.
Round(d, k) ==
    LET drop == d.scale - k
        t == with_scale(d, k)
    IN IF k >= 0 /\ drop <= 0 THEN d
       ELSE IF DigitAt(d.int.mag, drop) <= 4 THEN t
       ELSE IF d.int.neg THEN Dec(SubB(t.int, One), k)
       ELSE Dec(AddB(t.int, One), k)

(***************************************************************************)
(* Floating point in root.                                                 *)
(***************************************************************************)
\* r^k <= u * 10^e, for magnitudes r and u.
PowLeqScaled(r, k, u, e) ==
    CmpN(PowN(r, k), IF e >= 0 THEN ShiftN(u, e) ELSE DropN(u, -e)) <= 0

\* The largest digit d with (r + d * 10^p)^k <= u * 10^e.
RootDigit(r, p, k, u, e) ==
    LET fits == {d \in 0..9 : PowLeqScaled(AddN(r, ShiftN(NatOf(d), p)), k, u, e)}
    IN IF fits = {} THEN 0 ELSE CHOOSE d \in fits : \A o \in fits : o <= d

\* floor of the k-th root of u * 10^e, a number of p digits, digit by digit
\* from the most significant one.
RECURSIVE RootFloor(_, _, _, _, _)
RootFloor(r, p, k, u, e) ==
    IF p = 0 THEN r
    ELSE LET next == AddN(r, ShiftN(NatOf(RootDigit(r, p - 1, k, u, e)), p - 1))
         IN IF Len(next) >= 0 THEN RootFloor(next, p - 1, k, u, e) ELSE next

\* The scale at which the k-th root of u * 10^(-xs) has an unscaled integer
\* of SeedDigits digits.
SeedScale(k, u, xs) == -((-((SeedDigits - 1) * k + 1 - DigitsN(u) + xs)) \div k)

\* BigDecimal::from_f64(f64::powf(x.to_f64(), 1.0 / n)): zero for zero,
\* else the true root cut to SeedDigits digits, or the next decimal above it.
SeedCandidates(d, k) ==
    IF IsZero(d.int) THEN {Dec(Zero, 0)}
    ELSE LET sc == SeedScale(k, d.int.mag, d.scale)
             r0 == RootFloor(<<>>, SeedDigits, k, d.int.mag, k * sc - d.scale)
         IN {Dec(Big(FALSE, r0), sc), Dec(Big(FALSE, AddN(r0, <<1>>)), sc)}

\* eps_numerator / eps_denominator: ulp(x) and x have the same scale, so the
\* ratio of the two f64 values is the ratio of their unscaled integers.
Eps(d, k) == [num |-> ulp(d).int, den |-> MulB(BigOf(2 * k), d.int)]

\* (a.to_f64() / b.to_f64()) < e, for e = num / den with num > 0, den >= 0
\* (den = 0 is +infinity).  A division by 0.0 gives an infinity or NaN.
RatioLess(a, b, e) ==
    LET an == with_scale(a, Max(a.scale, b.scale)).int
        bn == with_scale(b, Max(a.scale, b.scale)).int
    IN IF IsZero(b.int) THEN a.int.neg
       ELSE IF IsZero(e.den) THEN TRUE
       ELSE IF ~bn.neg THEN CmpB(MulB(an, e.den), MulB(e.num, bn)) < 0
       ELSE CmpB(MulB(an, e.den), MulB(e.num, bn)) > 0

\* floor(log10(a / b)) for magnitudes a >= b > 0.
FloorLog10(a, b) ==
    IF CmpN(ShiftN(b, DigitsN(a) - DigitsN(b)), a) <= 0 THEN DigitsN(a) - DigitsN(b)
    ELSE DigitsN(a) - DigitsN(b) - 1

\* log10(a / b) as i32, which truncates toward zero.
TruncLog10(a, b) == IF CmpN(a, b) >= 0 THEN FloorLog10(a, b) ELSE -FloorLog10(b, a)

\* 1 + log10(|0.5 / xerr|) as i32, for xerr = num / den with num, den # 0.
err2prec(xerr) == 1 + TruncLog10(xerr.den.mag, MulN(<<2>>, xerr.num.mag))

(***************************************************************************)
(* root(n, x), one action per branch and per loop iteration.               *)
(***************************************************************************)
None == [kind |-> "None", val |-> NoDec, msg |-> ""]
Ok(d) == [kind |-> "Ok", val |-> d, msg |-> ""]
Err(m) == [kind |-> "Err", val |-> NoDec, msg |-> m]
Panic(m) == [kind |-> "Panic", val |-> NoDec, msg |-> m]

NoEps == [num |-> Zero, den |-> Zero]

\* The decimal written with the digits ds and sc digits after the point.
DecLit(ds, sc) == Dec(Big(FALSE, Lit(ds)), sc)

\* The arguments of the calls in tests::root_from_str_test (but the last,
\* whose power has thousands of digits) and in the doc test of root.
TestCalls ==
    { <<1, DecLit(<<1, 7, 9>>, 2)>>,
      <<4, DecLit(<<9, 1, 2, 5>>, 3)>>,
      <<5, DecLit(<<9, 3, 2, 4, 5, 6, 0, 0>>, 7)>>,
      <<4, DecLit(<<1, 4, 7, 5>>, 2)>> }

\* Calls whose x has more digits than an f64 holds, and 9.32456 as the
\* specification writes it.
LongCalls ==
    { <<5, DecLit(<<9, 3, 2, 4, 5, 6>>, 5)>>,
      <<2, Dec(Big(FALSE, ShiftN(<<3>>, 19)), 19)>>,
      <<2, Dec(Big(FALSE, ShiftN(<<3>>, 40)), 40)>>,
      <<3, Dec(Big(FALSE, ShiftN(<<5>>, 36)), 36)>> }

SmallCalls ==
    { <<k, Dec(BigOf(u), sc)>> : k \in -1..MaxN, u \in -2..MaxUnscaled, sc \in 0..MaxScale }

RootCalls == SmallCalls \cup TestCalls \cup LongCalls

xhighpr == scale_prec(x, 2)
nth == Dec(BigOf(n), 0)

\* Variants of the guards of root, as a slip in the code would make them: the
\* first lets -1 through, the second removes the fast path.
NegativeArgumentBelowMinusOne(d) == CmpB(d.int, BigOf(-1)) < 0
IsFastPathNever(k) == k = 0

NegativeArgument(d) == CmpB(d.int, Zero) < 0
NonPositiveIndex(k) == k <= 0
IsFastPath(k) == k = 1

RootInit ==
    /\ \E call \in RootCalls : n = call[1] /\ x = call[2]
    /\ pc = "call"
    /\ s = NoDec /\ c = NoDec /\ diff = NoDec
    /\ mc_precision_only = 0 /\ locmc = 0
    /\ eps = NoEps
    /\ outcome = None
    /\ reached = {}

RootIdle ==
    /\ n = 0 /\ x = NoDec /\ pc = "idle"
    /\ s = NoDec /\ c = NoDec /\ diff = NoDec
    /\ mc_precision_only = 0 /\ locmc = 0
    /\ eps = NoEps
    /\ outcome = None
    /\ reached = {}

(***************************************************************************)
(* The other components, at rest.                                          *)
(***************************************************************************)
nonRootVars == <<powVars, cacheVars, divVars, halfVars>>
nonPowVars == <<rootVars, cacheVars, divVars, halfVars>>
nonCacheVars == <<rootVars, powVars, divVars, halfVars>>
nonDivVars == <<rootVars, powVars, cacheVars, halfVars>>
nonHalfVars == <<rootVars, powVars, cacheVars, divVars>>

RootRejectNegative ==
    /\ pc = "call"
    /\ NegativeArgument(x)
    /\ outcome' = Err("negative argument of root")
    /\ pc' = "done"
    /\ UNCHANGED <<n, x, s, c, diff, mc_precision_only, locmc, eps, reached>>
    /\ UNCHANGED nonRootVars

RootRejectIndex ==
    /\ pc = "call"
    /\ ~NegativeArgument(x)
    /\ NonPositiveIndex(n)
    /\ outcome' = Err("negative power of root")
    /\ pc' = "done"
    /\ UNCHANGED <<n, x, s, c, diff, mc_precision_only, locmc, eps, reached>>
    /\ UNCHANGED nonRootVars

RootFastPath ==
    /\ pc = "call"
    /\ ~NegativeArgument(x)
    /\ ~NonPositiveIndex(n)
    /\ IsFastPath(n)
    /\ outcome' = Ok(x)
    /\ pc' = "done"
    /\ UNCHANGED <<n, x, s, c, diff, mc_precision_only, locmc, eps, reached>>
    /\ UNCHANGED nonRootVars

\* Lines 45 to 58: the seed, the working precision and eps.
RootSeed ==
    /\ pc = "call"
    /\ ~NegativeArgument(x)
    /\ ~NonPositiveIndex(n)
    /\ ~IsFastPath(n)
    /\ s' \in SeedCandidates(x, n)
    /\ mc_precision_only' = 2 + get_prec(x)
    /\ eps' = Eps(x, n)
    /\ reached' = reached \cup {"seed"}
    /\ pc' = "loop"
    /\ UNCHANGED <<n, x, c, diff, locmc, outcome>>
    /\ UNCHANGED nonRootVars

\* The test that ends the loop: c / s < eps.
Converged(cc, ss, e) == RatioLess(cc, ss, e)

\* One round of the loop.  pow fails for an exponent out of range, and the
\* division panics when s^(n-1) is zero.
RootIterate ==
    /\ pc = "loop"
    /\ reached' = reached \cup {"loop", "pow"}
    /\ LET p == pow(s, n - 1)
       IN IF ~p.ok
          THEN /\ outcome' = Err("Invalid power operation")
               /\ pc' = "done"
               /\ UNCHANGED <<s, c, diff, locmc>>
          ELSE IF IsZero(p.val.int)
          THEN /\ outcome' = Panic("Division by zero")
               /\ pc' = "panic"
               /\ UNCHANGED <<s, c, diff, locmc>>
          ELSE LET c1 == DivWithPrec(xhighpr, p.val, mc_precision_only)
                   c2 == Sub(s, c1)
                   loc == get_prec(c2)
                   c3 == DivWithPrec(c2, nth, loc)
                   s1 == Sub(s, c3)
               IN /\ diff' = c2
                  /\ locmc' = loc
                  /\ c' = c3
                  /\ s' = s1
                  /\ pc' = IF Converged(c3, s1, eps) THEN "round" ELSE "loop"
                  /\ UNCHANGED outcome
    /\ UNCHANGED <<n, x, mc_precision_only, eps>>
    /\ UNCHANGED nonRootVars

RootFinish ==
    /\ pc = "round"
    /\ outcome' = Ok(Round(s, err2prec(eps)))
    /\ pc' = "done"
    /\ UNCHANGED <<n, x, s, c, diff, mc_precision_only, locmc, eps, reached>>
    /\ UNCHANGED nonRootVars

(***************************************************************************)
(* pow(x, n) on its own.  The scale is an i64 and is kept as a big integer *)
(* here, so that scale * n can leave the i64 range: the debug build then   *)
(* panics, the release build keeps the low 64 bits.                        *)
(***************************************************************************)
Two63 == PowN(<<2>>, 63)

Two64 == PowN(<<2>>, 64)

FitsI64(b) == IF b.neg THEN CmpN(b.mag, Two63) <= 0 ELSE CmpN(b.mag, Two63) < 0

\* The i64 with the low 64 bits of b in two's complement.
WrapI64(b) ==
    LET r == DivModN(b.mag, Two64).r
        low == IF b.neg /\ r # <<>> THEN SubN(Two64, r) ELSE r
    IN IF CmpN(low, Two63) >= 0 THEN Big(TRUE, SubN(Two64, low)) ELSE Big(FALSE, low)

\* A decimal whose scale is a big integer.
WideDec(i, sc) == [int |-> i, scale |-> sc]

NoWideDec == WideDec(Zero, Zero)

NotCalled == [kind |-> "None", val |-> NoWideDec, msg |-> ""]

\* Scales far from the ends of i64, and scales whose product with a small
\* exponent is past them.
PowScales ==
    {BigOf(sc) : sc \in (-MaxPowScale)..MaxPowScale}
        \cup {Big(FALSE, PowN(<<2>>, 62)), Big(TRUE, PowN(<<2>>, 62)), Big(FALSE, TenTo(10))}

\* The exponents past MaxPowExp go with the bases -1, 0 and 1 only, whose
\* powers stay small.
PowCalls ==
    {<<WideDec(BigOf(u), sc), e>> : u \in (-MaxPowBase)..MaxPowBase, sc \in PowScales,
                                    e \in -1..MaxPowExp}
        \cup {<<WideDec(BigOf(u), sc), e>> : u \in -1..1, sc \in PowScales,
                                             e \in {PowLimit, PowLimit + 1}}

PowInit ==
    /\ \E call \in PowCalls : px = call[1] /\ pn = call[2]
    /\ pres = NotCalled

PowIdle == px = NoWideDec /\ pn = 0 /\ pres = NotCalled

new_scale == MulB(px.scale, BigOf(pn))

\* Lines 99 to 103.
PowReject ==
    /\ pres = NotCalled
    /\ ~InPowRange(pn)
    /\ pres' = [kind |-> "Err", val |-> NoWideDec, msg |-> "Invalid power operation"]
    /\ UNCHANGED <<px, pn>>
    /\ UNCHANGED nonPowVars

\* Lines 105 to 108, scale * n inside i64.
PowReturn ==
    /\ pres = NotCalled
    /\ InPowRange(pn)
    /\ FitsI64(new_scale)
    /\ pres' = [kind |-> "Ok", val |-> WideDec(PowB(px.int, pn), new_scale), msg |-> ""]
    /\ UNCHANGED <<px, pn>>
    /\ UNCHANGED nonPowVars

\* Line 106 with scale * n outside i64, overflow checks on.
PowOverflowPanic ==
    /\ pres = NotCalled
    /\ InPowRange(pn)
    /\ ~FitsI64(new_scale)
    /\ pres' = [kind |-> "Panic", val |-> NoWideDec, msg |-> "attempt to multiply with overflow"]
    /\ UNCHANGED <<px, pn>>
    /\ UNCHANGED nonPowVars

\* Line 106 with scale * n outside i64, overflow checks off.
PowOverflowWrap ==
    /\ pres = NotCalled
    /\ InPowRange(pn)
    /\ ~FitsI64(new_scale)
    /\ pres' = [kind |-> "Ok", val |-> WideDec(PowB(px.int, pn), WrapI64(new_scale)), msg |-> ""]
    /\ UNCHANGED <<px, pn>>
    /\ UNCHANGED nonPowVars

(***************************************************************************)
(* The tables of powers of ten (lines 246 to 291), entry by entry.         *)
(***************************************************************************)
LONG_TEN_POWERS_TABLE ==
    << Lit(<<1>>),
       Lit(<<1, 0>>),
       Lit(<<1, 0, 0>>),
       Lit(<<1, 0, 0, 0>>),
       Lit(<<1, 0, 0, 0, 0>>),
       Lit(<<1, 0, 0, 0, 0, 0>>),
       Lit(<<1, 0, 0, 0, 0, 0, 0>>),
       Lit(<<1, 0, 0, 0, 0, 0, 0, 0>>),
       Lit(<<1, 0, 0, 0, 0, 0, 0, 0, 0>>),
       Lit(<<1, 0, 0, 0, 0, 0, 0, 0, 0, 0>>),
       Lit(<<1, 0, 0, 0, 0, 0, 0, 0, 0, 0, 0>>),
       Lit(<<1, 0, 0, 0, 0, 0, 0, 0, 0, 0, 0, 0>>),
       Lit(<<1, 0, 0, 0, 0, 0, 0, 0, 0, 0, 0, 0, 0>>),
       Lit(<<1, 0, 0, 0, 0, 0, 0, 0, 0, 0, 0, 0, 0, 0>>),
       Lit(<<1, 0, 0, 0, 0, 0, 0, 0, 0, 0, 0, 0, 0, 0, 0>>),
       Lit(<<1, 0, 0, 0, 0, 0, 0, 0, 0, 0, 0, 0, 0, 0, 0, 0>>),
       Lit(<<1, 0, 0, 0, 0, 0, 0, 0, 0, 0, 0, 0, 0, 0, 0, 0, 0>>),
       Lit(<<1, 0, 0, 0, 0, 0, 0, 0, 0, 0, 0, 0, 0, 0, 0, 0, 0>>),
       Lit(<<1, 0, 0, 0, 0, 0, 0, 0, 0, 0, 0, 0, 0, 0, 0, 0, 0, 0, 0>>) >>

BIG_TEN_POWERS_TABLE ==
    << Lit(<<1>>),
       Lit(<<1, 0>>),
       Lit(<<1, 0, 0>>),
       Lit(<<1, 0, 0, 0>>),
       Lit(<<1, 0, 0, 0, 0>>),
       Lit(<<1, 0, 0, 0, 0, 0>>),
       Lit(<<1, 0, 0, 0, 0, 0, 0>>),
       Lit(<<1, 0, 0, 0, 0, 0, 0, 0>>),
       Lit(<<1, 0, 0, 0, 0, 0, 0, 0, 0>>),
       Lit(<<1, 0, 0, 0, 0, 0, 0, 0, 0, 0>>),
       Lit(<<1, 0, 0, 0, 0, 0, 0, 0, 0, 0, 0>>),
       Lit(<<1, 0, 0, 0, 0, 0, 0, 0, 0, 0, 0, 0>>),
       Lit(<<1, 0, 0, 0, 0, 0, 0, 0, 0, 0, 0, 0, 0>>),
       Lit(<<1, 0, 0, 0, 0, 0, 0, 0, 0, 0, 0, 0, 0, 0>>),
       Lit(<<1, 0, 0, 0, 0, 0, 0, 0, 0, 0, 0, 0, 0, 0, 0>>),
       Lit(<<1, 0, 0, 0, 0, 0, 0, 0, 0, 0, 0, 0, 0, 0, 0, 0>>),
       Lit(<<1, 0, 0, 0, 0, 0, 0, 0, 0, 0, 0, 0, 0, 0, 0, 0, 0>>),
       Lit(<<1, 0, 0, 0, 0, 0, 0, 0, 0, 0, 0, 0, 0, 0, 0, 0, 0, 0>>),
       Lit(<<1, 0, 0, 0, 0, 0, 0, 0, 0, 0, 0, 0, 0, 0, 0, 0, 0, 0, 0>>) >>

(***************************************************************************)
(* big_ten_to_the(n), called by several threads.  The table is behind a    *)
(* mutex: holder is the thread that holds it, 0 when it is free and -1     *)
(* when a thread panicked holding it (the mutex is then poisoned).  The    *)
(* entry of index i is pows[i + 1].                                        *)
(***************************************************************************)
I32Max == 2147483647

\* v << 1 on an i32: the low 32 bits of 2 * v.
Shl1(v) ==
    LET half == I32Max \div 2 + 1
    IN IF v >= half THEN (v - half) * 2 - I32Max - 1
       ELSE IF v < -half THEN (v + half + half) * 2
       ELSE v * 2

Threads == 1..MaxThreads

\* Indices inside the initial table, past its end, past its doubled length,
\* negative, and the largest i32.
CacheRequests == {-1, 7, 19, 38, I32Max}

CacheInit ==
    /\ pows = BIG_TEN_POWERS_TABLE
    /\ holder = 0
    /\ tn \in [Threads -> CacheRequests]
    /\ tpc = [t \in Threads |-> "start"]
    /\ current_len = [t \in Threads |-> 0]
    /\ new_len = [t \in Threads |-> 0]
    /\ ti = [t \in Threads |-> 0]
    /\ tret = [t \in Threads |-> <<>>]

CacheIdle ==
    /\ pows = <<>> /\ holder = 0
    /\ tpc = <<>> /\ tn = <<>> /\ current_len = <<>> /\ new_len = <<>> /\ ti = <<>> /\ tret = <<>>

\* Lines 150 to 152: a negative n returns zero without the table.
CacheReturnZero(t) ==
    /\ tpc[t] = "start"
    /\ tn[t] < 0
    /\ tret' = [tret EXCEPT ![t] = <<>>]
    /\ tpc' = [tpc EXCEPT ![t] = "returned"]
    /\ UNCHANGED <<pows, holder, tn, current_len, new_len, ti>>
    /\ UNCHANGED nonCacheVars

\* Lines 155 to 159: lock().unwrap() waits for the mutex and panics on a
\* poisoned one; then current_len and the first new_len.
CacheLock(t) ==
    /\ tpc[t] = "start"
    /\ tn[t] >= 0
    /\ holder <= 0
    /\ IF holder = -1
       THEN /\ tpc' = [tpc EXCEPT ![t] = "panicked"]
            /\ UNCHANGED <<holder, current_len, new_len>>
       ELSE /\ holder' = t
            /\ current_len' = [current_len EXCEPT ![t] = Len(pows)]
            /\ IF Len(pows) <= tn[t]
               THEN /\ new_len' = [new_len EXCEPT ![t] = Shl1(Len(pows))]
                    /\ tpc' = [tpc EXCEPT ![t] = "double"]
               ELSE /\ tpc' = [tpc EXCEPT ![t] = "read"]
                    /\ UNCHANGED new_len
    /\ UNCHANGED <<pows, tn, ti, tret>>
    /\ UNCHANGED nonCacheVars

\* Lines 160 to 162: one round of while new_len <= n.
CacheDouble(t) ==
    /\ tpc[t] = "double"
    /\ new_len[t] <= tn[t]
    /\ new_len' = [new_len EXCEPT ![t] = Shl1(new_len[t])]
    /\ UNCHANGED <<pows, holder, tpc, tn, current_len, ti, tret>>
    /\ UNCHANGED nonCacheVars

\* Line 164: the loop is left, i = current_len.
CacheDoubled(t) ==
    /\ tpc[t] = "double"
    /\ new_len[t] > tn[t]
    /\ ti' = [ti EXCEPT ![t] = current_len[t]]
    /\ tpc' = [tpc EXCEPT ![t] = "fill"]
    /\ UNCHANGED <<pows, holder, tn, current_len, new_len, tret>>
    /\ UNCHANGED nonCacheVars

\* Vec::insert(i, val), for i <= len.
InsertAt(v, i, val) == SubSeq(v, 1, i) \o <<val>> \o SubSeq(v, i + 1, Len(v))

\* Lines 166 to 170: one round of while i < new_len.  get(i - 1) of an
\* absent entry and insert past the end both panic, the mutex held.
CacheFill(t) ==
    /\ tpc[t] = "fill"
    /\ ti[t] < new_len[t]
    /\ IF ti[t] < 1 \/ ti[t] > Len(pows)
       THEN /\ tpc' = [tpc EXCEPT ![t] = "panicked"]
            /\ holder' = IF holder = t THEN -1 ELSE holder
            /\ UNCHANGED <<pows, ti>>
       ELSE /\ pows' = InsertAt(pows, ti[t], MulSmall(pows[ti[t]], 10))
            /\ ti' = [ti EXCEPT ![t] = ti[t] + 1]
            /\ UNCHANGED <<holder, tpc>>
    /\ UNCHANGED <<tn, current_len, new_len, tret>>
    /\ UNCHANGED nonCacheVars

\* The fill loop is left.
CacheFilled(t) ==
    /\ tpc[t] = "fill"
    /\ ti[t] >= new_len[t]
    /\ tpc' = [tpc EXCEPT ![t] = "read"]
    /\ UNCHANGED <<pows, holder, tn, current_len, new_len, ti, tret>>
    /\ UNCHANGED nonCacheVars

\* Line 173: pows[n].clone() is returned and the guard dropped; an index
\* past the end panics.
CacheRead(t) ==
    /\ tpc[t] = "read"
    /\ IF tn[t] >= Len(pows)
       THEN /\ tpc' = [tpc EXCEPT ![t] = "panicked"]
            /\ holder' = IF holder = t THEN -1 ELSE holder
            /\ UNCHANGED tret
       ELSE /\ tret' = [tret EXCEPT ![t] = pows[tn[t] + 1]]
            /\ tpc' = [tpc EXCEPT ![t] = "returned"]
            /\ holder' = IF holder = t THEN 0 ELSE holder
    /\ UNCHANGED <<pows, tn, current_len, new_len, ti>>
    /\ UNCHANGED nonCacheVars

ThreadStep(t) ==
    \/ CacheReturnZero(t)
    \/ CacheLock(t)
    \/ CacheDouble(t)
    \/ CacheDoubled(t)
    \/ CacheFill(t)
    \/ CacheFilled(t)
    \/ CacheRead(t)

(***************************************************************************)
(* divide_and_round_by_ten_pow(int_val, ten_pow): the choice of the        *)
(* divisor, then the division, which is todo!() in either branch.          *)
(***************************************************************************)
TenPows == -2..MaxTenPow

DivInit == ten_pow \in TenPows /\ ddiv = <<>> /\ dpc = "call"

DivIdle == ten_pow = 0 /\ ddiv = <<>> /\ dpc = "idle"

\* The length big_ten_to_the grows a table of length len to, for an index
\* k >= len.
RECURSIVE NewLen(_, _)
NewLen(len, k) == IF len > k THEN len ELSE NewLen(Shl1(len), k)

\* The table filled up to the length to.
RECURSIVE Filled(_, _)
Filled(p, to) == IF Len(p) >= to THEN p ELSE Filled(Append(p, MulSmall(p[Len(p)], 10)), to)

\* big_ten_to_the(k) with no other caller, on the initial table.
big_ten_to_the(k) ==
    IF k < 0 THEN <<>>
    ELSE LET p == BIG_TEN_POWERS_TABLE
         IN IF Len(p) <= k THEN Filled(p, NewLen(Shl1(Len(p)), k))[k + 1] ELSE p[k + 1]

\* ten_pow as usize < LONG_TEN_POWERS_TABLE.len(): a negative ten_pow is a
\* huge usize.
InLongTable(k) == k >= 0 /\ k < Len(LONG_TEN_POWERS_TABLE)

\* Line 131, up to the call of divide_and_round_i64.
DivSelectLong ==
    /\ dpc = "call"
    /\ InLongTable(ten_pow)
    /\ ddiv' = LONG_TEN_POWERS_TABLE[ten_pow + 1]
    /\ dpc' = "divide"
    /\ UNCHANGED ten_pow
    /\ UNCHANGED nonDivVars

\* Line 133, up to the call of divide_and_round_bigint.
DivSelectBig ==
    /\ dpc = "call"
    /\ ~InLongTable(ten_pow)
    /\ ddiv' = big_ten_to_the(ten_pow)
    /\ dpc' = "divide"
    /\ UNCHANGED ten_pow
    /\ UNCHANGED nonDivVars

\* Lines 139 to 145: todo!() panics.
DivTodo ==
    /\ dpc = "divide"
    /\ dpc' = "panicked"
    /\ UNCHANGED <<ten_pow, ddiv>>
    /\ UNCHANGED nonDivVars

(***************************************************************************)
(* compare_half(a, b) on magnitudes.  A 32-bit word is kept as a natural   *)
(* number; the i64 arithmetic on words is done on big integers.            *)
(***************************************************************************)
Two32 == PowN(<<2>>, 32)

Two31 == PowN(<<2>>, 31)

\* to_u32_digits, reversed: the 32-bit words, most significant first.
RECURSIVE WordsOf(_)
WordsOf(a) ==
    IF a = <<>> THEN <<>>
    ELSE LET qr == DivModN(a, Two32) IN Append(WordsOf(qr.q), qr.r)

\* v & 0xffffffff for an i64 v.
LongMask(v) ==
    LET r == DivModN(v.mag, Two32).r
    IN IF v.neg /\ r # <<>> THEN SubN(Two32, r) ELSE r

\* The loop of lines 217 to 233 from the word i of a and the word j of b on
\* (both counted from 1), then lines 235 to 239.
RECURSIVE CompareWords(_, _, _, _, _)
CompareWords(a_val, b_val, i, j, carry) ==
    IF i > Len(a_val) THEN (IF IsZero(carry) THEN 0 ELSE -1)
    ELSE LET bv == DivModN(b_val[j], <<2>>)
             half == LongMask(AddB(Big(FALSE, bv.q), carry))
             v == a_val[i]
         IN IF v # half THEN (IF CmpN(v, half) < 0 THEN -1 ELSE 1)
            ELSE CompareWords(a_val, b_val, i + 1, j + 1,
                              IF bv.r = <<>> THEN Zero ELSE Big(FALSE, Two31))

\* compare_half without the carry of lines 206 to 209: the leading word 1
\* of b is skipped and its half forgotten.
compare_half_without_carry(a, b) ==
    LET a_val == WordsOf(a)
        b_val == WordsOf(b)
    IN IF Len(a_val) <= 0 THEN (IF Len(b_val) <= 0 THEN 0 ELSE -1)
       ELSE IF Len(a_val) > Len(b_val) THEN 1
       ELSE IF Len(a_val) < Len(b_val) - 1 THEN -1
       ELSE IF Len(a_val) # Len(b_val)
       THEN IF b_val[1] = <<1>> THEN CompareWords(a_val, b_val, 1, 2, Zero)
            ELSE -1
       ELSE CompareWords(a_val, b_val, 1, 1, Zero)

compare_half(a, b) ==
    LET a_val == WordsOf(a)
        b_val == WordsOf(b)
    IN IF Len(a_val) <= 0 THEN (IF Len(b_val) <= 0 THEN 0 ELSE -1)
       ELSE IF Len(a_val) > Len(b_val) THEN 1
       ELSE IF Len(a_val) < Len(b_val) - 1 THEN -1
       ELSE IF Len(a_val) # Len(b_val)
       THEN IF b_val[1] = <<1>> THEN CompareWords(a_val, b_val, 1, 2, Big(TRUE, Two31))
            ELSE -1
       ELSE CompareWords(a_val, b_val, 1, 1, Zero)

\* Words at and next to the ends of the 32-bit range and of its halves.
HalfWords == {<<>>, <<1>>, <<2>>, Two31, SubN(Two32, <<1>>)}

\* The number with the words ws, most significant first.
RECURSIVE FromWords(_)
FromWords(ws) ==
    IF ws = <<>> THEN <<>>
    ELSE AddN(MulN(FromWords(SubSeq(ws, 1, Len(ws) - 1)), Two32), ws[Len(ws)])

HalfNumbers == {FromWords(ws) : ws \in [1..MaxWords -> HalfWords]}

NoResult == [called |-> FALSE, val |-> 0]

HalfInit == ha \in HalfNumbers /\ hb \in HalfNumbers /\ hres = NoResult

HalfIdle == ha = <<>> /\ hb = <<>> /\ hres = NoResult

HalfCall ==
    /\ ~hres.called
    /\ hres' = [called |-> TRUE, val |-> compare_half(ha, hb)]
    /\ UNCHANGED <<ha, hb>>
    /\ UNCHANGED nonHalfVars

Init == RootInit /\ PowIdle /\ CacheIdle /\ DivIdle /\ HalfIdle

Next ==
    \/ RootRejectNegative
    \/ RootRejectIndex
    \/ RootFastPath
    \/ RootSeed
    \/ RootIterate
    \/ RootFinish

Spec == Init /\ [][Next]_vars

PowSpecInit == RootIdle /\ PowInit /\ CacheIdle /\ DivIdle /\ HalfIdle

PowNext ==
    \/ PowReject
    \/ PowReturn
    \/ PowOverflowPanic
    \/ PowOverflowWrap

SpecPow == PowSpecInit /\ [][PowNext]_vars

CacheSpecInit == RootIdle /\ PowIdle /\ CacheInit /\ DivIdle /\ HalfIdle

CacheNext == \E t \in Threads : ThreadStep(t)

SpecCache == CacheSpecInit /\ [][CacheNext]_vars

\* Every thread that can take a step takes one in the end: the scheduler
\* starves no thread, and a mutex that stays free is taken.
SpecCacheFair == SpecCache /\ \A t \in Threads : WF_vars(ThreadStep(t))

DivSpecInit == RootIdle /\ PowIdle /\ CacheIdle /\ DivInit /\ HalfIdle

DivNext ==
    \/ DivSelectLong
    \/ DivSelectBig
    \/ DivTodo

SpecDiv == DivSpecInit /\ [][DivNext]_vars

HalfSpecInit == RootIdle /\ PowIdle /\ CacheIdle /\ DivIdle /\ HalfInit

HalfNext == HalfCall

SpecHalf == HalfSpecInit /\ [][HalfNext]_vars

(***************************************************************************)
(* Properties of root.                                                     *)
(***************************************************************************)
IsNegative(d) == d.int.neg /\ d.int.mag # <<>>

ValidCall == n >= 1 /\ ~IsNegative(x)

\* |a / b| < e, for decimals a and b # 0 and the ratio e of two integers.
AbsRatioLess(a, b, e) ==
    CmpN(MulN(ShiftN(a.int.mag, b.scale), e.den.mag),
         MulN(ShiftN(b.int.mag, a.scale), e.num.mag)) < 0

\* r is x^(1/k) to within one unit of the last digit of r:
\* (R - 1)^k <= x * 10^(k * scale(r)) <= (R + 1)^k for the unscaled R of r.
WithinOneUnit(r, d, k) ==
    LET R == r.int.mag
        lo == IF R = <<>> THEN <<>> ELSE SubN(R, <<1>>)
        hi == AddN(R, <<1>>)
        e == k * r.scale - d.scale
    IN /\ ~r.int.neg
       /\ PowLeqScaled(lo, k, d.int.mag, e)
       /\ CmpN(IF e >= 0 THEN ShiftN(d.int.mag, e) ELSE DropN(d.int.mag, -e), PowN(hi, k)) <= 0

\* C1: for a negative x (any n) and for n <= 0 (any x), root returns an Err
\* and computes nothing: the seed, pow and the loop are never reached.
C1_RejectsWithoutComputing ==
    IsNegative(x) \/ n <= 0 =>
        /\ reached = {}
        /\ pc \in {"call", "done"}
        /\ pc = "done" => outcome.kind = "Err"

C1_Witness == pc = "done" /\ IsNegative(x) /\ n >= 2 /\ outcome.kind = "Err" /\ reached = {}

\* C2: for n >= 1 and x >= 0, x = 0 included, root ends by returning a value
\* to its caller and never panics.
C2_NeverPanics == ValidCall => pc # "panic"

\* C3: for n >= 2 and x >= 0, what root returns is x^(1/n) to within one
\* unit of its last digit (n = 1 is the case of C4, a call that does not
\* return that of C2).
C3_ReturnedValueIsTheRoot ==
    ValidCall /\ n >= 2 /\ pc = "done" /\ outcome.kind = "Ok" =>
        WithinOneUnit(outcome.val, x, n)

\* C4: for x >= 0, root(1, x) returns Ok(x), the unscaled integer and the
\* scale those of x.
C4_FastPathReturnsArgument ==
    n = 1 /\ ~IsNegative(x) /\ pc = "done" =>
        /\ outcome.kind = "Ok"
        /\ outcome.val.int = x.int
        /\ outcome.val.scale = x.scale

C4_Witness == pc = "done" /\ n = 1 /\ x = DecLit(<<1, 7, 9>>, 2) /\ outcome = Ok(x)

\* C7: the loop of root is left only after a round in which |c / s| < eps.
C7_LeavesLoopOnlyWhenSmall == pc = "round" => AbsRatioLess(c, s, eps)

\* C10: get_prec is the number of decimal digits of |unscaled|, so that
\* after a round of the loop locmc is the digit count of |s - c|, also for
\* a negative s - c.
C10_LocmcIsDigitCount == "loop" \in reached /\ pc \in {"loop", "round"} => locmc = CountDigits(diff.int)

(***************************************************************************)
(* Properties of pow.                                                      *)
(***************************************************************************)
\* b^e as e multiplications.
RECURSIVE RepeatedProduct(_, _)
RepeatedProduct(b, e) == IF e = 0 THEN One ELSE MulB(b, RepeatedProduct(b, e - 1))

\* b^e: by its closed form for b in {-1, 0, 1}, else as e multiplications.
ExactPower(b, e) ==
    IF b.mag = <<>> THEN (IF e = 0 THEN One ELSE Zero)
    ELSE IF b.mag = <<1>> THEN Big(b.neg /\ e % 2 = 1, <<1>>)
    ELSE RepeatedProduct(b, e)

\* C5: for 0 <= n <= 999999999 pow returns Ok of (unscaled^n, scale * n),
\* and for any other n an Err.
C5_PowIsExactInRange ==
    pres # NotCalled =>
        IF 0 <= pn /\ pn <= 999999999
        THEN /\ pres.kind = "Ok"
             /\ pres.val.int = ExactPower(px.int, pn)
             /\ pres.val.scale = MulB(px.scale, BigOf(pn))
        ELSE pres.kind = "Err"

\* C5 where scale * n is an i64: pow is exact in its range of exponents and
\* an Err outside it.
C5_PowIsExactWhereScaleFits ==
    pres # NotCalled /\ FitsI64(MulB(px.scale, BigOf(pn))) => C5_PowIsExactInRange

(***************************************************************************)
(* Properties of big_ten_to_the.                                           *)
(***************************************************************************)
Returned(t) == tpc[t] = "returned" /\ tret[t] = TenTo(tn[t])

\* C6: under any interleaving, every call of big_ten_to_the(k) with k >= 0
\* returns, and returns 10^k.
C6_EveryCallReturnsPowerOfTen == <>[](\A t \in Threads : tn[t] >= 0 => Returned(t))

\* C6, the calls that do return: they return 10^k, no call panics, and the
\* entry of index i is 10^i.
C6_ReturnedValuesAndTable ==
    /\ \A t \in Threads : tpc[t] # "panicked"
    /\ \A t \in Threads : tpc[t] = "returned" /\ tn[t] >= 0 => tret[t] = TenTo(tn[t])
    /\ \A i \in 1..Len(pows) : pows[i] = TenTo(i - 1)

\* C6, the table in every step: no entry is overwritten and the length
\* never decreases.
C6_AppendOnly ==
    [][/\ Len(pows') >= Len(pows)
       /\ \A i \in 1..Len(pows) : pows'[i] = pows[i]]_vars

(***************************************************************************)
(* Properties of divide_and_round_by_ten_pow.                              *)
(***************************************************************************)
\* C8: for k in 0..18 the divisor taken from LONG_TEN_POWERS_TABLE is 10^k,
\* and is the initial entry k of BIG_TEN_POWERS_TABLE.
C8_LongTableHoldsPowersOfTen ==
    dpc = "divide" /\ 0 <= ten_pow /\ ten_pow <= 18 =>
        /\ ddiv = TenTo(ten_pow)
        /\ ddiv = BIG_TEN_POWERS_TABLE[ten_pow + 1]

(***************************************************************************)
(* Properties of compare_half.                                             *)
(***************************************************************************)
\* C9: compare_half(a, b) is -1, 0 or 1 as 2a < b, 2a = b or 2a > b.
C9_CompareHalfIsSignOfDifference ==
    hres.called => hres.val = CmpN(AddN(ha, ha), hb)

\* a is one word shorter than b, whose leading word is 1, and 2a = b.
C9_Witness == hres.called /\ ha = Two31 /\ hb = Two32 /\ hres.val = 0

====
